---- MODULE Spec2Model ----
(***************************************************************************)
(* Model of src/agent.py: the conversation_item_added / close handlers of   *)
(* the voice session, the background save task (save_conversation_to_memu)  *)
(* and the refresh cycle that rewrites the agent's instructions             *)
(* (refresh_memories_and_update_prompt_with_task / _fallback).              *)
(*                                                                         *)
(* One action is one uninterrupted run on the asyncio event loop: a whole   *)
(* synchronous event handler, or a coroutine from one suspension point      *)
(* (await) to the next.                                                     *)
(***************************************************************************)
EXTENDS Integers, Sequences, FiniteSets, TLC

VARIABLES
    memu_api_key,            \* TRUE iff MEMU_API_KEY is set (memu_client exists)
    instructions,            \* assistant.instructions
    conversation_buffer,     \* entrypoint local, list of messages
    full_conversation,       \* entrypoint local, list of messages
    turn_count,              \* entrypoint local
    current_user_message,    \* entrypoint local, None or str
    current_agent_message,   \* entrypoint local, None or str
    closed,                  \* the session has emitted "close"
    tasks,                   \* save_conversation_to_memu tasks, in creation order
    cycles,                  \* refresh cycles, in creation order
    replaced,                \* history: the pending user message that line 394 overwrote
    last                     \* history: what the most recent step of the event loop ran

vars == <<memu_api_key, instructions, conversation_buffer, full_conversation,
          turn_count, current_user_message, current_agent_message, closed,
          tasks, cycles, replaced, last>>

session_vars == <<conversation_buffer, full_conversation, turn_count,
                  current_user_message, current_agent_message, closed, replaced>>

----------------------------------------------------------------------------
(* Bounds of the model *)

\* Spec delivers no event once this many turns have been formed
MaxTurns == 2

\* SessionSpec delivers no event once this many turns have been formed
MaxSessionTurns == 4

----------------------------------------------------------------------------
(* Python values *)

None == [t |-> "None"]
Str(s) == [t |-> "str", v |-> s]
List(l) == [t |-> "list", v |-> l]
Image == [t |-> "image"]

\* str.strip(): leading and trailing whitespace removed
RECURSIVE lstrip(_)
lstrip(s) == IF s # <<>> /\ Head(s) = " " THEN lstrip(Tail(s)) ELSE s

RECURSIVE rstrip(_)
rstrip(s) == IF s # <<>> /\ s[Len(s)] = " " THEN rstrip(SubSeq(s, 1, Len(s) - 1)) ELSE s

strip(s) == rstrip(lstrip(s))

\* ''.join(content) raises TypeError when an element is not a str
JoinRaises(l) == \E i \in 1..Len(l) : l[i].t # "str"

RECURSIVE Join(_)
Join(l) == IF l = <<>> THEN <<>> ELSE Head(l).v \o Join(Tail(l))

\* truth value of a pending slot: None and '' are falsy
Truthy(x) == x.t = "str" /\ x.v # <<>>

----------------------------------------------------------------------------
(* The session's events *)

x == <<"x">>
y == <<"y">>
z == <<"z">>

ChatMessage(role, content) == [t |-> "msg", role |-> role, content |-> content]
Event(chat_message) == [item |-> chat_message]

\* a user and an assistant utterance: ChatMessage.content is a list of text parts
Dialogue ==
    { Event(ChatMessage("user", List(<<Str(x)>>))),
      Event(ChatMessage("assistant", List(<<Str(z)>>))) }

\* utterances, one of them with a plain str for content
Utterances == Dialogue \cup { Event(ChatMessage("user", Str(y))) }

\* events that carry no utterance
Malformed ==
    { Event(None),
      Event(ChatMessage("user", None)),
      Event(ChatMessage("assistant", Str(<<>>))),
      Event(ChatMessage("user", Str(<<" ">>))),
      Event(ChatMessage("user", List(<<Str(x), Image>>))),
      Event(ChatMessage("system", Str(x))) }

Items == Utterances \cup Malformed

\* one entry of conversation_buffer / full_conversation; turn is the value of
\* turn_count when the entry was made (it names the Turn the entry belongs to)
Message(role, content, turn) == [role |-> role, content |-> content, turn |-> turn]

\* line 380-381: a list content is joined into one str
Content(chat_message) ==
    IF chat_message.content.t = "list"
    THEN Str(Join(chat_message.content.v))
    ELSE chat_message.content

\* line 381: the join raises out of the handler
HandlerRaises(item) ==
    /\ item.item.t = "msg"
    /\ item.item.content.t = "list"
    /\ JoinRaises(item.item.content.v)

\* line 371, 384, 390: the item carries a non-blank str
IsText(item) ==
    /\ item.item.t = "msg"
    /\ ~HandlerRaises(item)
    /\ Content(item.item).t = "str"
    /\ strip(Content(item.item).v) # <<>>

\* line 391
IsUserText(item) == IsText(item) /\ item.item.role = "user"

\* line 395
IsAssistantText(item) == IsText(item) /\ item.item.role = "assistant"

\* line 401 without its test of current_user_message
FormsTurnUnguarded(item, pending_user) == IsAssistantText(item)

\* line 401: a Turn is formed by an assistant text when a user message is pending
FormsTurn(item, pending_user) == IsAssistantText(item) /\ Truthy(pending_user)

\* line 403-406 with the agent message in both entries
conversation_context_swapped(user_message, agent_message, turn) ==
    << Message("user", agent_message, turn), Message("assistant", agent_message, turn) >>

\* line 403-406 with the assistant entry before the user entry
conversation_context_reversed(user_message, agent_message, turn) ==
    << Message("assistant", agent_message, turn), Message("user", user_message, turn) >>

\* line 403-406
conversation_context(user_message, agent_message, turn) ==
    << Message("user", user_message, turn), Message("assistant", agent_message, turn) >>

BufferThreshold == 4

\* line 413 with > for >=
BufferOverfull(buffer) == Len(buffer) > BufferThreshold

\* line 413
BufferFull(buffer) == Len(buffer) >= BufferThreshold

\* line 417 and 436 with conversation_buffer.copy() for full_conversation.copy()
SubmittedBuffer(buffer, full) == buffer

\* line 417 and 436: the conversation handed to save_conversation_to_memu
SubmittedConversation(buffer, full) == full

\* line 415-423 and 434-442: asyncio.create_task(save_conversation_to_memu(...))
NewTask(conversation) == [conversation |-> conversation, pc |-> "created", response |-> None]

\* line 365-424
on_conversation_item_added(item) ==
    /\ ~closed
    /\ last' = [op |-> "item", item |-> item]
    /\ UNCHANGED <<memu_api_key, instructions, cycles, closed>>
    /\ IF IsUserText(item)
       THEN /\ current_user_message' = Content(item.item)
            /\ replaced' = current_user_message
            /\ UNCHANGED <<current_agent_message, conversation_buffer,
                           full_conversation, turn_count, tasks>>
       ELSE IF FormsTurn(item, current_user_message)
       THEN LET turn == conversation_context(current_user_message, Content(item.item),
                                             turn_count + 1)
                buffer == conversation_buffer \o turn
                full == full_conversation \o turn
            IN  /\ turn_count' = turn_count + 1
                /\ UNCHANGED replaced
                /\ full_conversation' = full
                /\ current_user_message' = None
                /\ current_agent_message' = None
                /\ IF BufferFull(buffer)
                   THEN /\ tasks' = Append(tasks, NewTask(SubmittedConversation(buffer, full)))
                        /\ conversation_buffer' = <<>>
                   ELSE /\ conversation_buffer' = buffer
                        /\ UNCHANGED tasks
       ELSE IF IsAssistantText(item)
       THEN /\ current_agent_message' = Content(item.item)
            /\ UNCHANGED <<current_user_message, conversation_buffer,
                           full_conversation, turn_count, tasks, replaced>>
       ELSE UNCHANGED <<current_user_message, current_agent_message, conversation_buffer,
                        full_conversation, turn_count, tasks, replaced>>

\* line 433 with a test for any message in place of the test for 4
CloseSubmitsAny(full) == Len(full) > 0

\* line 433
CloseSubmits(full) == Len(full) >= BufferThreshold

\* line 428-444
on_session_close ==
    /\ ~closed
    /\ closed' = TRUE
    /\ last' = [op |-> "close"]
    /\ UNCHANGED <<memu_api_key, instructions, cycles, turn_count,
                   current_user_message, current_agent_message, replaced>>
    /\ IF CloseSubmits(full_conversation)
       THEN /\ tasks' = Append(tasks, NewTask(SubmittedConversation(conversation_buffer,
                                                                   full_conversation)))
            /\ conversation_buffer' = <<>>
            /\ full_conversation' = <<>>
       ELSE UNCHANGED <<tasks, conversation_buffer, full_conversation>>

----------------------------------------------------------------------------
(* The memory store and the prompt *)

\* a name or summary that the store left out (extract_value gives None)
Missing == "<None>"

Category(name, summary) == [name |-> name, summary |-> summary]
Memories(categories) == [categories |-> categories]

\* what memu_client.retrieve_default_categories can answer
StoreReplies ==
    { Memories(<<>>),
      Memories(<<Category("Profile", "")>>),
      Memories(<<Category("Profile", "s1")>>),
      Memories(<<Category("Event", Missing), Category(Missing, "s2")>>) }

StoreError == [error |-> "Exception"]

\* line 47-85 without the except clause: the error goes to the caller
retrieve_user_memories_propagating(client, reply) ==
    IF ~client THEN Memories(<<>>) ELSE reply

\* line 47-85 without the test of line 56
retrieve_user_memories_unguarded(client, reply) ==
    IF reply = StoreError THEN Memories(<<>>) ELSE reply

\* line 47-85: the reply, or {'categories': []} without a client or on any error
retrieve_user_memories(client, reply) ==
    IF ~client THEN Memories(<<>>)
    ELSE IF reply = StoreError THEN Memories(<<>>)
    ELSE reply

\* a reply without the 'categories' key
NoCategories == [status |-> "ok"]

\* line 123-130: [] for None and for a reply without categories
extract_categories(memories) ==
    IF memories = None THEN <<>>
    ELSE IF "categories" \in DOMAIN memories THEN memories.categories
    ELSE <<>>

\* truth value of a str or None
TruthyText(s) == s # "" /\ s # Missing

\* line 210 and 224
Summaries(memories) ==
    SelectSeq(extract_categories(memories), LAMBDA c : TruthyText(c.summary))

base_instructions == <<"base">>

\* line 104
memory_context_header == <<"\n\n header \n\n">>

\* line 109-110
CategoryBlock(category) ==
    << "**", (IF TruthyText(category.name) THEN category.name ELSE "unknown"), ":** ",
       category.summary, "\n\n" >>

\* line 106-111 without the test of line 108
RECURSIVE CategoryBlocksAll(_)
CategoryBlocksAll(categories) ==
    IF categories = <<>> THEN <<>>
    ELSE CategoryBlock(Head(categories)) \o CategoryBlocksAll(Tail(categories))

\* line 106-111
RECURSIVE CategoryBlocks(_)
CategoryBlocks(categories) ==
    IF categories = <<>> THEN <<>>
    ELSE (IF TruthyText(Head(categories).summary) THEN CategoryBlock(Head(categories)) ELSE <<>>)
         \o CategoryBlocks(Tail(categories))

\* line 88-121
build_system_prompt_with_memories(base, memories) ==
    IF Summaries(memories) # <<>>
    THEN base \o memory_context_header \o CategoryBlocks(extract_categories(memories))
    ELSE base

----------------------------------------------------------------------------
(* save_conversation_to_memu, one task per call *)

\* the task identifier the store gives to the n-th submission of the session
TaskId(n) == <<"task", n>>

Response(task_id) == [t |-> "obj", task_id |-> task_id]

\* line 177 with an attribute name that the response does not have
task_id_default(response) == <<"N/A">>

\* line 177
task_id_of(response) == IF "task_id" \in DOMAIN response THEN response.task_id ELSE <<"N/A">>

Attempts == 10
FallbackAttempts == 5

\* line 182-190: the coroutine of a new refresh cycle, not yet run
NewCycle(task_id) ==
    [task_id |-> task_id, phase |-> "polling", polls |-> 0, retrievals |-> 0,
     attempts |-> FallbackAttempts]

\* line 144-165: the task runs up to the await of the remote call
save_start(n) ==
    /\ n \in 1..Len(tasks)
    /\ tasks[n].pc = "created"
    /\ tasks' = [tasks EXCEPT ![n].pc = IF memu_api_key THEN "calling" ELSE "returned"]
    /\ last' = [op |-> "save_start", task |-> n]
    /\ UNCHANGED <<memu_api_key, instructions, cycles, session_vars>>

\* line 165-190 with the buffer cleared when the call returns, not when it is dispatched
save_response_clearing(n) ==
    /\ n \in 1..Len(tasks)
    /\ tasks[n].pc = "calling"
    /\ tasks' = [tasks EXCEPT ![n].pc = "submitted", ![n].response = Response(TaskId(n))]
    /\ cycles' = Append(cycles, NewCycle(task_id_of(Response(TaskId(n)))))
    /\ last' = [op |-> "save_response", task |-> n]
    /\ conversation_buffer' = <<>>
    /\ UNCHANGED <<memu_api_key, instructions, full_conversation, turn_count,
                   current_user_message, current_agent_message, closed, replaced>>

\* line 165-190 with a cycle started only when no other cycle is running
save_response_serialized(n) ==
    /\ n \in 1..Len(tasks)
    /\ tasks[n].pc = "calling"
    /\ tasks' = [tasks EXCEPT ![n].pc = "submitted", ![n].response = Response(TaskId(n))]
    /\ cycles' = IF \E c \in 1..Len(cycles) : cycles[c].phase \in {"polling", "fallback"}
                 THEN cycles
                 ELSE Append(cycles, NewCycle(task_id_of(Response(TaskId(n)))))
    /\ last' = [op |-> "save_response", task |-> n]
    /\ UNCHANGED <<memu_api_key, instructions, session_vars>>

\* line 165-190: memorize_conversation returned
save_response(n) ==
    /\ n \in 1..Len(tasks)
    /\ tasks[n].pc = "calling"
    /\ tasks' = [tasks EXCEPT ![n].pc = "submitted", ![n].response = Response(TaskId(n))]
    /\ cycles' = Append(cycles, NewCycle(task_id_of(Response(TaskId(n)))))
    /\ last' = [op |-> "save_response", task |-> n]
    /\ UNCHANGED <<memu_api_key, instructions, session_vars>>

\* line 192-196: memorize_conversation raised, the error is logged
save_error(n) ==
    /\ n \in 1..Len(tasks)
    /\ tasks[n].pc = "calling"
    /\ tasks' = [tasks EXCEPT ![n].pc = "failed"]
    /\ last' = [op |-> "save_error", task |-> n]
    /\ UNCHANGED <<memu_api_key, instructions, cycles, session_vars>>

----------------------------------------------------------------------------
(* The refresh cycle *)

\* line 203-206: the body of the status reply, None when the request failed
Statuses == {"completed", "processing", Missing}

\* line 203: the address of the status request
StatusUrl(task_id) == <<"/memory/memorize/status/">> \o task_id

\* line 207 with any answered status taken for completion
Answered(status) == status # Missing

\* line 207
Completed(status) == status = "completed"

\* line 211 and 225 without the test of summaries
UpdatesAlways(memories) == TRUE

\* line 211 and 225: the retrieval carries a summary, the prompt is written
Updates(memories) == Summaries(memories) # <<>>

\* line 212 and 226 with the memories added to the prompt in use
UpdatedPromptAppended(current, memories) ==
    build_system_prompt_with_memories(current, memories)

\* line 212 and 226 with the prompt written only while it has no memories
UpdatedPromptOnce(current, memories) ==
    IF current # base_instructions THEN current
    ELSE build_system_prompt_with_memories(base_instructions, memories)

\* line 212-214 and 226-228: the prompt that replaces the one in use
UpdatedPrompt(current, memories) ==
    build_system_prompt_with_memories(base_instructions, memories)

\* line 201-217: one pass of the polling loop, from the status request to the sleep
PollIteration(cycle, status, memories) ==
    IF Completed(status) /\ Updates(memories)
    THEN [cycle EXCEPT !.polls = @ + 1, !.phase = "prompt-updated"]
    ELSE [cycle EXCEPT !.polls = @ + 1]

\* line 221-231 without the return of line 230
FallbackIterationNoReturn(cycle, memories) ==
    [cycle EXCEPT !.retrievals = @ + 1, !.phase = "fallback"]

\* line 221-231 as a loop that does not count its passes
FallbackIterationUncounted(cycle, memories) ==
    IF Updates(memories)
    THEN [cycle EXCEPT !.retrievals = @ + 1, !.phase = "prompt-updated"]
    ELSE [cycle EXCEPT !.phase = "fallback"]

\* line 221-231: one pass of the fallback loop, from the retrieval to the sleep
FallbackIteration(cycle, memories) ==
    IF Updates(memories)
    THEN [cycle EXCEPT !.retrievals = @ + 1, !.phase = "prompt-updated"]
    ELSE [cycle EXCEPT !.retrievals = @ + 1, !.phase = "fallback"]

\* line 201 with one pass too many
PollsLeftInclusive(cycle) == cycle.polls <= Attempts

\* line 201: the polling loop has passes left
PollsLeft(cycle) == cycle.polls < Attempts

\* line 221: the fallback loop has passes left
RetrievalsLeft(cycle) == cycle.retrievals < cycle.attempts

\* the cycle runs from one suspension point to the next (or to its return)
RunCycle(cycle, key, status, memories) ==
    IF cycle.phase = "polling"
    THEN IF cycle.polls = 0 /\ ~key                                 \* line 199-200
         THEN FallbackIteration([cycle EXCEPT !.attempts = Attempts], memories)
         ELSE IF PollsLeft(cycle)
         THEN PollIteration(cycle, status, memories)
         ELSE FallbackIteration(cycle, memories)                    \* line 218
    ELSE IF RetrievalsLeft(cycle)
         THEN FallbackIteration(cycle, memories)
         ELSE [cycle EXCEPT !.phase = "exhausted"]                  \* line 232

\* the step requests the status of the task
Polls(cycle, key) == cycle.phase = "polling" /\ PollsLeft(cycle) /\ ~(cycle.polls = 0 /\ ~key)

\* the step calls retrieve_user_memories
Retrieves(cycle, key, status) ==
    IF Polls(cycle, key) THEN Completed(status)
    ELSE cycle.phase = "polling" \/ RetrievalsLeft(cycle)

Live(cycle) == cycle.phase \in {"polling", "fallback"}

\* line 198-232
refresh_step(c, status, reply) ==
    /\ c \in 1..Len(cycles)
    /\ Live(cycles[c])
    /\ LET cycle == cycles[c]
           polled == Polls(cycle, memu_api_key)
           retrieved == Retrieves(cycle, memu_api_key, status)
           memories == retrieve_user_memories(memu_api_key, reply)
           next == RunCycle(cycle, memu_api_key, status, memories)
       IN  \* inputs that the step does not read are fixed
           /\ ~polled => status = Missing
           /\ ~retrieved => reply = StoreError
           /\ cycles' = [cycles EXCEPT ![c] = next]
           /\ instructions' =
                 IF next.phase = "prompt-updated"
                 THEN UpdatedPrompt(instructions, memories)
                 ELSE instructions
           /\ last' = [op |-> "refresh", cycle |-> c,
                       url |-> IF polled THEN StatusUrl(cycle.task_id) ELSE <<>>,
                       status |-> IF polled THEN status ELSE "not polled",
                       memories |-> IF retrieved THEN memories ELSE None]
    /\ UNCHANGED <<memu_api_key, tasks, session_vars>>

----------------------------------------------------------------------------
(* The program *)

\* line 277-291 and 336-340: the state when the session starts
Init ==
    /\ memu_api_key \in BOOLEAN
    /\ \E reply \in StoreReplies \cup {StoreError} :
          instructions = build_system_prompt_with_memories(
                             base_instructions, retrieve_user_memories(memu_api_key, reply))
    /\ conversation_buffer = <<>>
    /\ full_conversation = <<>>
    /\ turn_count = 0
    /\ current_user_message = None
    /\ current_agent_message = None
    /\ closed = FALSE
    /\ tasks = <<>>
    /\ cycles = <<>>
    /\ replaced = None
    /\ last = [op |-> "start"]

Next ==
    \/ \E item \in Dialogue : turn_count < MaxTurns /\ on_conversation_item_added(item)
    \/ on_session_close
    \/ \E n \in 1..Len(tasks) : save_start(n)
    \/ \E n \in 1..Len(tasks) : save_response(n)
    \/ \E n \in 1..Len(tasks) : save_error(n)
    \/ \E c \in 1..Len(cycles), status \in Statuses, reply \in StoreReplies \cup {StoreError} :
          refresh_step(c, status, reply)

Spec == Init /\ [][Next]_vars

\* The session under every kind of event, with the save tasks it dispatches. The
\* refresh cycles that the tasks start are left suspended here: refresh_step writes
\* instructions and cycles only, and Spec runs them.
SessionNext ==
    \/ \E item \in Items : turn_count < MaxSessionTurns /\ on_conversation_item_added(item)
    \/ on_session_close
    \/ \E n \in 1..Len(tasks) : save_start(n)
    \/ \E n \in 1..Len(tasks) : save_response(n)
    \/ \E n \in 1..Len(tasks) : save_error(n)

SessionSpec == Init /\ [][SessionNext]_vars

\* The program with every refresh cycle resumed when its sleep is over: the event
\* loop runs a task that is ready, and a cycle is ready after each asyncio.sleep
\* (line 217 and 231) as long as it has not returned.
FairSpec ==
    /\ Spec
    /\ \A c \in 1..MaxTurns :
          WF_vars(\E status \in Statuses, reply \in StoreReplies \cup {StoreError} :
                     refresh_step(c, status, reply))

\* The prompt of a session under every reply of the store with up to MaxCategories
\* categories: retrieve_user_memories and build_system_prompt_with_memories as the
\* entrypoint calls them.
MaxCategories == 3

CategoryNames == {"Profile", "", Missing}
CategorySummaries == {"s1", "s2", "", Missing}

CategoryLists ==
    UNION { [1..k -> { Category(name, summary) :
                         name \in CategoryNames, summary \in CategorySummaries }] :
            k \in 0..MaxCategories }

PromptReplies == { Memories(categories) : categories \in CategoryLists }
                   \cup {NoCategories, StoreError}

\* line 282-283: the entrypoint has the base prompt and has not retrieved yet
PromptInit ==
    /\ memu_api_key \in BOOLEAN
    /\ instructions = base_instructions
    /\ conversation_buffer = <<>>
    /\ full_conversation = <<>>
    /\ turn_count = 0
    /\ current_user_message = None
    /\ current_agent_message = None
    /\ closed = FALSE
    /\ tasks = <<>>
    /\ cycles = <<>>
    /\ replaced = None
    /\ last = [op |-> "start"]

\* line 277-291: the initial retrieval and the prompt the agent is created with, once
\* per session
entrypoint_prompt(reply) ==
    /\ last.op = "start"
    /\ LET memories == retrieve_user_memories(memu_api_key, reply)
       IN  /\ instructions' = build_system_prompt_with_memories(base_instructions, memories)
           /\ last' = [op |-> "prompt", reply |-> reply, memories |-> memories]
    /\ UNCHANGED <<memu_api_key, tasks, cycles, session_vars>>

PromptNext == \E reply \in PromptReplies : entrypoint_prompt(reply)

PromptSpec == PromptInit /\ [][PromptNext]_vars

\* refresh_memories_and_update_prompt_with_task called with its default parameters
\* (attempts=10, delay=2.0), with and without MEMU_API_KEY. The entrypoint starts a
\* cycle only when the key is set; without the key the function takes line 199-200.
RefreshInit ==
    /\ memu_api_key \in BOOLEAN
    /\ \E reply \in StoreReplies \cup {StoreError} :
          instructions = build_system_prompt_with_memories(
                             base_instructions, retrieve_user_memories(memu_api_key, reply))
    /\ conversation_buffer = <<>>
    /\ full_conversation = <<>>
    /\ turn_count = 0
    /\ current_user_message = None
    /\ current_agent_message = None
    /\ closed = FALSE
    /\ tasks = <<>>
    /\ cycles = <<NewCycle(TaskId(1))>>
    /\ replaced = None
    /\ last = [op |-> "start"]

RefreshNext ==
    \E status \in Statuses, reply \in StoreReplies \cup {StoreError} :
       refresh_step(1, status, reply)

RefreshSpec == RefreshInit /\ [][RefreshNext]_vars

----------------------------------------------------------------------------
(* Properties *)

\* the step is a run of on_conversation_item_added
ItemStep == last'.op = "item"

\* the Turn that the step's item forms with the pending user message
StepTurn ==
    conversation_context(current_user_message, Content(last'.item.item), turn_count + 1)

\* the step appends StepTurn to the buffer (and hands the buffer over when it is full)
AppendsTurn ==
    /\ turn_count' = turn_count + 1
    /\ full_conversation' = full_conversation \o StepTurn
    /\ \/ conversation_buffer' = conversation_buffer \o StepTurn
       \/ /\ Len(conversation_buffer \o StepTurn) >= 4
          /\ conversation_buffer' = <<>>
          /\ Len(tasks') = Len(tasks) + 1

\* the step appends nothing
AppendsNothing ==
    /\ turn_count' = turn_count
    /\ full_conversation' = full_conversation
    /\ conversation_buffer' = conversation_buffer
    /\ tasks' = tasks

\* C1: an event with non-empty content appends a Turn (one user message followed by one
\* assistant message) if and only if it is an assistant utterance handled while a user
\* utterance is pending; every other such event, in particular an assistant utterance
\* with no pending user utterance, appends nothing.
C1_TurnIffAssistantAfterPendingUser ==
    [][ (ItemStep /\ IsText(last'.item)) =>
          IF last'.item.item.role = "assistant" /\ current_user_message # None
          THEN /\ AppendsTurn
               /\ StepTurn[1].role = "user" /\ StepTurn[1].content.t = "str"
               /\ StepTurn[2].role = "assistant"
          ELSE AppendsNothing ]_vars

\* the second of two consecutive assistant utterances was handled after a Turn:
\* it is held in current_agent_message and the buffer still has the one Turn
C1_Witness ==
    /\ last.op = "item"
    /\ IsAssistantText(last.item)
    /\ current_user_message = None
    /\ current_agent_message = Str(z)
    /\ turn_count = 1
    /\ Len(conversation_buffer) = 2

\* C2: a user utterance overwrites the pending one; the Turn formed by the next
\* assistant utterance holds the most recent user utterance and that assistant
\* utterance, and both pending slots are empty after it.
C2_LatestUserUtteranceInTurn ==
    [][ /\ (ItemStep /\ IsUserText(last'.item)) =>
              /\ current_user_message' = Content(last'.item.item)
              /\ AppendsNothing
        /\ (ItemStep /\ IsAssistantText(last'.item) /\ current_user_message # None) =>
              /\ full_conversation' =
                    full_conversation \o
                    << Message("user", current_user_message, turn_count'),
                       Message("assistant", Content(last'.item.item), turn_count') >>
              /\ current_user_message' = None
              /\ current_agent_message' = None
        /\ ~(ItemStep /\ IsText(last'.item)) =>
              current_user_message' = current_user_message ]_vars

\* user x was pending and overwritten by user y, and the assistant utterance then
\* formed the Turn (y, z)
C2_Witness ==
    /\ last.op = "item"
    /\ IsAssistantText(last.item)
    /\ replaced = Str(x)
    /\ turn_count = 1
    /\ full_conversation = << Message("user", Str(y), 1), Message("assistant", Str(z), 1) >>
    /\ current_user_message = None
    /\ current_agent_message = None

\* C3: an event whose Turn brings the buffer to 4 messages dispatches exactly one save
\* task, which has not run when the handler returns, and leaves the buffer empty; an
\* event that leaves the buffer below 4 messages dispatches nothing.
C3_OneSubmissionAtThreshold ==
    [][ ItemStep =>
          IF turn_count' = turn_count + 1 /\ Len(conversation_buffer) + 2 >= 4
          THEN /\ Len(tasks') = Len(tasks) + 1
               /\ SubSeq(tasks', 1, Len(tasks)) = tasks
               /\ tasks'[Len(tasks')].pc = "created"
               /\ tasks'[Len(tasks')].response = None
               /\ conversation_buffer' = <<>>
          ELSE /\ tasks' = tasks
               /\ Len(conversation_buffer') < 4 ]_vars

\* the second Turn has just been appended: one task waits to run, the buffer is empty
C3_Witness ==
    /\ last.op = "item"
    /\ turn_count = 2
    /\ Len(tasks) = 1
    /\ tasks[1].pc = "created"
    /\ conversation_buffer = <<>>

\* the Turns of a conversation, by the turn_count that formed them
TurnTags(conversation) == { conversation[i].turn : i \in 1..Len(conversation) }

IsPrefix(p, q) == Len(p) <= Len(q) /\ SubSeq(q, 1, Len(p)) = p

\* the step's item brings the buffer to the threshold and dispatches a save task
ThresholdStep == ItemStep /\ Len(tasks') = Len(tasks) + 1

\* C4 as claimed: the payload of a threshold-triggered submission is the buffer, the
\* turns accumulated since the previous submission, and shares no Turn with an
\* earlier payload.
C4_PayloadIsBufferSnapshot ==
    [][ ThresholdStep =>
          /\ tasks'[Len(tasks')].conversation = conversation_buffer \o StepTurn
          /\ \A n \in 1..Len(tasks) :
                TurnTags(tasks[n].conversation)
                  \cap TurnTags(tasks'[Len(tasks')].conversation) = {} ]_vars

\* C4 amended: the payload of a threshold-triggered submission is a snapshot of
\* full_conversation, every Turn formed since the session started; the buffer's Turns
\* are its last entries, every earlier payload is a proper prefix of it, and a payload
\* never changes after its dispatch.
C4_PayloadIsHistorySnapshot ==
    [][ /\ ThresholdStep =>
              LET payload == tasks'[Len(tasks')].conversation
                  buffer == conversation_buffer \o StepTurn
              IN  /\ payload = full_conversation \o StepTurn
                  /\ payload = full_conversation'
                  /\ TurnTags(payload) = 1..turn_count'
                  /\ SubSeq(payload, Len(payload) - Len(buffer) + 1, Len(payload)) = buffer
                  /\ \A n \in 1..Len(tasks) :
                        /\ IsPrefix(tasks[n].conversation, payload)
                        /\ Len(tasks[n].conversation) < Len(payload)
        /\ \A n \in 1..Len(tasks) : tasks'[n].conversation = tasks[n].conversation ]_vars

\* the second threshold submission has just been dispatched with all four Turns
C4_Witness ==
    /\ last.op = "item"
    /\ Len(tasks) = 2
    /\ tasks[2].pc = "created"
    /\ TurnTags(tasks[1].conversation) = {1, 2}
    /\ TurnTags(tasks[2].conversation) = {1, 2, 3, 4}
    /\ conversation_buffer = <<>>

\* the remote call of the task is dispatched and has not returned
Outstanding(task) == task.pc \in {"created", "calling"}

\* a step of a save task
SaveStep == last'.op \in {"save_start", "save_response", "save_error"}

\* C5: a Turn formed while a submission's remote call is outstanding is not in that
\* submission's payload, which never changes, and the Turn is in the buffer when the
\* call ends: no step of a save task touches the buffer or the history.
C5_SnapshotApartFromLaterTurns ==
    [][ /\ \A n \in 1..Len(tasks) : tasks'[n].conversation = tasks[n].conversation
        /\ turn_count' = turn_count + 1 =>
              \A n \in 1..Len(tasks) :
                 Outstanding(tasks[n]) => turn_count' \notin TurnTags(tasks'[n].conversation)
        /\ SaveStep =>
              /\ conversation_buffer' = conversation_buffer
              /\ full_conversation' = full_conversation ]_vars

\* Turn 3 was formed while the call of the first submission was outstanding; the call
\* has just returned, Turn 3 is in the buffer and not in the payload
C5_Witness ==
    /\ last.op = "save_response"
    /\ last.task = 1
    /\ tasks[1].pc = "submitted"
    /\ 3 \notin TurnTags(tasks[1].conversation)
    /\ TurnTags(conversation_buffer) = {3}
    /\ Len(conversation_buffer) = 2

\* C6 as claimed: the Turns of a failed submission are in no later payload.
C6_FailedTurnsNeverResent ==
    \A n, m \in 1..Len(tasks) :
       (n < m /\ tasks[n].pc = "failed") =>
          TurnTags(tasks[n].conversation) \cap TurnTags(tasks[m].conversation) = {}

\* C6 amended: a failed submission is not retried (the task makes no further step and
\* its failure dispatches nothing and re-queues nothing into the buffer), but its Turns
\* stay in full_conversation: its payload is a prefix of every later payload.
C6_FailedNotRetriedButResent ==
    [][ /\ \A n \in 1..Len(tasks) :
              tasks[n].pc = "failed" => tasks'[n] = tasks[n]
        /\ last'.op = "save_error" =>
              /\ Len(tasks') = Len(tasks)
              /\ tasks'[last'.task].pc = "failed"
              /\ cycles' = cycles
              /\ conversation_buffer' = conversation_buffer
              /\ full_conversation' = full_conversation
        /\ \A n, m \in 1..Len(tasks') :
              (n < m /\ tasks'[n].pc = "failed") =>
                 IsPrefix(tasks'[n].conversation, tasks'[m].conversation) ]_vars

\* the first submission failed and the second threshold submission carries its Turns
C6_Witness ==
    /\ Len(tasks) = 2
    /\ tasks[1].pc = "failed"
    /\ ~closed
    /\ TurnTags(tasks[1].conversation) = {1, 2}
    /\ TurnTags(tasks[2].conversation) = {1, 2, 3, 4}

\* the step is a run of refresh cycle c
CycleStep(c) == last'.op = "refresh" /\ last'.cycle = c

\* the step requested the status of a task
StatusPolled == last'.op = "refresh" /\ last'.status # "not polled"

\* the step called retrieve_user_memories
Retrieved == last'.op = "refresh" /\ last'.memories # None

\* a cycle that has written the prompt takes no further step
UpdatedCyclesRest ==
    \A c \in 1..Len(cycles) :
       cycles[c].phase = "prompt-updated" => (cycles'[c] = cycles[c] /\ ~CycleStep(c))

SubmittedTasks(tt) == { n \in 1..Len(tt) : tt[n].pc = "submitted" }

\* C7: a refresh cycle is started exactly by the return of a submission's remote call:
\* every submitted task has one cycle, whose status polls ask for the task identifier of
\* the task's response, and there are no other cycles; a failing call starts none and
\* changes neither the buffer nor the instructions, and the task just ends.
C7_RefreshIffSubmissionReturned ==
    [][ /\ Len(cycles') = Cardinality(SubmittedTasks(tasks'))
        /\ \A n \in SubmittedTasks(tasks') :
              Cardinality({ c \in 1..Len(cycles') :
                              cycles'[c].task_id = tasks'[n].response.task_id }) = 1
        /\ Len(cycles') # Len(cycles) =>
              /\ last'.op = "save_response"
              /\ Len(cycles') = Len(cycles) + 1
              /\ cycles'[Len(cycles')].task_id = tasks'[last'.task].response.task_id
              /\ cycles'[Len(cycles')].polls = 0
        /\ StatusPolled =>
              \E n \in SubmittedTasks(tasks) :
                 /\ cycles[last'.cycle].task_id = tasks[n].response.task_id
                 /\ last'.url = StatusUrl(tasks[n].response.task_id)
        /\ last'.op = "save_error" =>
              /\ tasks'[last'.task].pc = "failed"
              /\ cycles' = cycles
              /\ instructions' = instructions
              /\ conversation_buffer' = conversation_buffer
              /\ full_conversation' = full_conversation ]_vars

\* one submission failed, the other returned and its cycle has just polled the status
C7_Witness ==
    /\ Len(tasks) = 2
    /\ \E n, m \in 1..2 : tasks[n].pc = "failed" /\ tasks[m].pc = "submitted"
    /\ Len(cycles) = 1
    /\ last.op = "refresh"
    /\ last.status # "not polled"
    /\ cycles[1].polls > 0

\* C8: in either loop a retrieval that returns a category with a summary sets the
\* instructions to the prompt built from the base and that retrieval, and ends the
\* cycle: the cycle takes no further step, so it polls, retrieves and writes no more.
\* Nothing else writes the instructions.
C8_FirstSummaryWritesPromptOnce ==
    [][ /\ (Retrieved /\ Summaries(last'.memories) # <<>>) =>
              /\ instructions' =
                    build_system_prompt_with_memories(base_instructions, last'.memories)
              /\ cycles'[last'.cycle].phase = "prompt-updated"
        /\ UpdatedCyclesRest
        /\ instructions' # instructions =>
              /\ Retrieved
              /\ Summaries(last'.memories) # <<>>
              /\ Live(cycles[last'.cycle]) ]_vars

\* one cycle wrote the prompt from its polling loop, the other has just written it
\* from its fallback loop
C8_Witness ==
    /\ Len(cycles) = 2
    /\ \E c, d \in 1..2 :
          /\ cycles[c].phase = "prompt-updated" /\ cycles[c].retrievals = 0
          /\ cycles[d].phase = "prompt-updated" /\ cycles[d].retrievals > 0
          /\ last.op = "refresh" /\ last.cycle = d
    /\ Summaries(last.memories) # <<>>
    /\ instructions = build_system_prompt_with_memories(base_instructions, last.memories)

\* C9 as claimed: in a cycle no status poll follows a poll that reported "completed"
\* (stated of two consecutive steps of the cycle).
C9_NoPollAfterCompleted ==
    [][ ~( /\ last.op = "refresh"
           /\ last.status = "completed"
           /\ CycleStep(last.cycle)
           /\ StatusPolled ) ]_vars

\* C9 amended: a poll that reports "completed" is followed in the same step by a
\* retrieval; polling stops when that retrieval returns a summary (the prompt is written
\* and the cycle ends) and goes on after the delay when it returns none; a poll that
\* reports anything else retrieves nothing.
C9_PollingStopsAtCompletedWithSummary ==
    [][ /\ StatusPolled =>
              LET c == last'.cycle IN
              IF last'.status = "completed"
              THEN /\ Retrieved
                   /\ IF Summaries(last'.memories) # <<>>
                      THEN cycles'[c].phase = "prompt-updated"
                      ELSE /\ cycles'[c].phase = "polling"
                           /\ instructions' = instructions
                   /\ cycles'[c].polls = cycles[c].polls + 1
              ELSE /\ ~Retrieved
                   /\ cycles'[c] = [cycles[c] EXCEPT !.polls = @ + 1]
                   /\ instructions' = instructions
        /\ UpdatedCyclesRest ]_vars

\* the second poll of a cycle reported "completed" and its retrieval wrote the prompt
C9_Witness ==
    /\ last.op = "refresh"
    /\ last.status = "completed"
    /\ Summaries(last.memories) # <<>>
    /\ cycles[last.cycle].phase = "prompt-updated"
    /\ cycles[last.cycle].polls = 2
    /\ cycles[last.cycle].retrievals = 0

\* C10: a cycle polls the status at most 10 times; the fallback loop starts only after
\* the 10th poll, in the step that follows it, and retrieves at most 5 times; a cycle
\* that ends without a summary has polled 10 times and retrieved 5 times in fallback.
C10_AtMostTenPollsFiveRetrievals ==
    [][ \A c \in 1..Len(cycles') :
          LET cycle == cycles'[c] IN
          /\ cycle.polls <= 10
          /\ cycle.retrievals <= 5
          /\ cycle.retrievals > 0 => cycle.polls = 10
          /\ cycle.phase = "fallback" => cycle.retrievals > 0
          /\ cycle.phase = "exhausted" => (cycle.polls = 10 /\ cycle.retrievals = 5)
          /\ (c <= Len(cycles) /\ CycleStep(c)) =>
                /\ cycle.polls = cycles[c].polls + (IF StatusPolled THEN 1 ELSE 0)
                /\ cycle.retrievals =
                      cycles[c].retrievals + (IF Retrieved /\ ~StatusPolled THEN 1 ELSE 0)
                /\ (cycles[c].phase = "polling" /\ cycles[c].polls = 10) =>
                      (~StatusPolled /\ Retrieved /\ cycle.retrievals = 1)
                /\ cycle.phase = "exhausted" => ~Retrieved ]_vars

\* a cycle has just ended without a summary after 10 polls and 5 fallback retrievals
C10_Witness ==
    /\ last.op = "refresh"
    /\ cycles[last.cycle].phase = "exhausted"
    /\ cycles[last.cycle].polls = 10
    /\ cycles[last.cycle].retrievals = 5
    /\ last.memories = None

\* the step's retrieval returned a category with a summary
RetrievedSummary == Retrieved /\ Summaries(last'.memories) # <<>>

\* C11: a step of a refresh cycle in which no retrieval returns a summary (in either
\* loop) leaves the instructions as they are and does not end the cycle as updated; a
\* cycle that ran out of attempts has made its last step without assigning and takes no
\* further step, so it never assigned the instructions.
C11_NoSummaryNoAssignment ==
    [][ \A c \in 1..Len(cycles) :
          /\ (CycleStep(c) /\ ~RetrievedSummary) =>
                /\ instructions' = instructions
                /\ cycles'[c].phase \in {"polling", "fallback", "exhausted"}
          /\ (CycleStep(c) /\ cycles'[c].phase = "exhausted") =>
                /\ instructions' = instructions
                /\ ~Retrieved
          /\ cycles[c].phase = "exhausted" => (cycles'[c] = cycles[c] /\ ~CycleStep(c)) ]_vars

\* the only cycle of the session has just ended without a summary, and the prompt of
\* the initial retrieval, which has memories, is still in use
C11_Witness ==
    /\ Len(cycles) = 1
    /\ last.op = "refresh"
    /\ cycles[1].phase = "exhausted"
    /\ cycles[1].retrievals = 5
    /\ instructions # base_instructions
    /\ instructions \in { build_system_prompt_with_memories(base_instructions, m) :
                            m \in StoreReplies }

\* the categories of a memory set that have a summary, in the order of the set
WithSummary(memories) ==
    SelectSeq(IF "categories" \in DOMAIN memories THEN memories.categories ELSE <<>>,
              LAMBDA c : c.summary \notin {"", Missing})

\* C12: the prompt built from a base and a memory set is the base followed, when some
\* category has a summary, by the header and one block (name, or the default for a
\* missing name, and summary) per category with a summary, in the order of the set;
\* categories without a summary add nothing, and with no summary at all, with an empty
\* category list or with none, the prompt is the base.
C12_PromptIsBaseThenSummaryBlocks ==
    last.op = "prompt" =>
       LET blocks == WithSummary(last.memories)
           n == Len(base_instructions)
       IN  IF blocks = <<>>
           THEN instructions = base_instructions
           ELSE /\ Len(instructions) = n + 1 + 5 * Len(blocks)
                /\ SubSeq(instructions, 1, n) = base_instructions
                /\ instructions[n + 1] = memory_context_header[1]
                /\ \A k \in 1..Len(blocks) :
                      LET o == n + 1 + 5 * (k - 1)
                      IN  /\ instructions[o + 1] = "**"
                          /\ instructions[o + 2] =
                                (IF blocks[k].name \in {"", Missing}
                                 THEN "unknown" ELSE blocks[k].name)
                          /\ instructions[o + 3] = ":** "
                          /\ instructions[o + 4] = blocks[k].summary
                          /\ instructions[o + 5] = "\n\n"

\* a set of three categories, the second without a summary and the third without a
\* name: the prompt has the blocks of the first and the third, in that order
C12_Witness ==
    /\ last.op = "prompt"
    /\ last.memories = Memories(<< Category("Profile", "s2"), Category("Profile", ""),
                                   Category(Missing, "s1") >>)
    /\ instructions = base_instructions \o memory_context_header
                        \o <<"**", "Profile", ":** ", "s2", "\n\n">>
                        \o <<"**", "unknown", ":** ", "s1", "\n\n">>

\* the number of memory headers in a prompt
HeaderCount(prompt) ==
    Cardinality({ i \in 1..Len(prompt) : prompt[i] = memory_context_header[1] })

\* C13: in every state the instructions are the prompt built from the base and the
\* categories of one retrieval: they begin with the base and carry the memory header at
\* most once, whatever cycles have written before; right after a cycle has written,
\* they are the prompt built from that cycle's retrieval alone.
C13_PromptRendersOneRetrieval ==
    /\ \E m \in StoreReplies :
          instructions = build_system_prompt_with_memories(base_instructions, m)
    /\ SubSeq(instructions, 1, Len(base_instructions)) = base_instructions
    /\ HeaderCount(instructions) <= 1
    /\ (last.op = "refresh" /\ cycles[last.cycle].phase = "prompt-updated") =>
          instructions = build_system_prompt_with_memories(base_instructions, last.memories)

\* two cycles have written the prompt one after the other: it holds the one summary of
\* the second write under one header
C13_Witness ==
    /\ Len(cycles) = 2
    /\ cycles[1].phase = "prompt-updated"
    /\ cycles[2].phase = "prompt-updated"
    /\ last.op = "refresh"
    /\ last.memories = Memories(<<Category("Profile", "s1")>>)
    /\ HeaderCount(instructions) = 1
    /\ instructions = base_instructions \o memory_context_header
                        \o <<"**", "Profile", ":** ", "s1", "\n\n">>

\* C14 as claimed: a close with Turns in the buffer dispatches exactly one submission,
\* whose payload has those Turns.
C14_CloseSubmitsBufferedTurns ==
    [][ (last'.op = "close" /\ conversation_buffer # <<>>) =>
          /\ Len(tasks') = Len(tasks) + 1
          /\ TurnTags(conversation_buffer)
               \subseteq TurnTags(tasks'[Len(tasks')].conversation) ]_vars

\* C15: a cycle that obtains a summary assigns the prompt built from its own retrieval
\* whatever other cycles have assigned before and whichever submissions they belong to,
\* and no step but a later assignment changes it: the instructions are the value of the
\* cycle that assigned last.
C15_LastAssignmentWins ==
    [][ /\ \A c \in 1..Len(cycles) :
              (CycleStep(c) /\ RetrievedSummary) =>
                 /\ instructions' =
                       build_system_prompt_with_memories(base_instructions, last'.memories)
                 /\ \A d \in 1..Len(cycles) : d # c => cycles'[d] = cycles[d]
        /\ ~RetrievedSummary => instructions' = instructions ]_vars

\* the cycle of the second submission has written the prompt, and the cycle of the first
\* submission has just written it after that
C15_Witness ==
    /\ Len(cycles) = 2
    /\ \E c, d \in 1..2 :
          /\ cycles[c].task_id = TaskId(1) /\ cycles[c].phase = "prompt-updated"
          /\ cycles[d].task_id = TaskId(2) /\ cycles[d].phase = "prompt-updated"
          /\ cycles[d].polls = 1
          /\ cycles[c].polls = 3
          /\ last.op = "refresh" /\ last.cycle = c
    /\ instructions = build_system_prompt_with_memories(base_instructions, last.memories)

\* C16 as claimed: a cycle is suspended while a status request or a retrieval is under
\* way, so the step that issues the call does not also handle its reply.
C16_NetworkCallsSuspend ==
    [][ \A c \in 1..Len(cycles) : CycleStep(c) => (~StatusPolled /\ ~Retrieved) ]_vars

C18_RetrievalErrorGivesEmptySet ==
    last.op = "prompt" =>
       /\ last.memories # StoreError
       /\ last.reply = StoreError =>
             /\ last.memories = Memories(<<>>)
             /\ extract_categories(last.memories) = <<>>
             /\ instructions = base_instructions

\* the store is configured and the initial retrieval failed
C18_Witness ==
    /\ memu_api_key
    /\ last.op = "prompt"
    /\ last.reply = StoreError
    /\ last.memories = Memories(<<>>)
    /\ instructions = base_instructions

\* C19: without MEMU_API_KEY the instructions are the base prompt in every state, every
\* save task returns before its remote call (it is never calling, submitted or failed,
\* and has no response) and there is no refresh cycle.
C19_NoStoreNoMemory ==
    ~memu_api_key =>
       /\ instructions = base_instructions
       /\ cycles = <<>>
       /\ last.op \notin {"refresh", "save_response", "save_error"}
       /\ \A n \in 1..Len(tasks) :
             /\ tasks[n].pc \in {"created", "returned"}
             /\ tasks[n].response = None

\* without the key, the threshold submission and the one at close have both returned
C19_Witness ==
    /\ ~memu_api_key
    /\ closed
    /\ Len(tasks) = 2
    /\ tasks[1].pc = "returned"
    /\ tasks[2].pc = "returned"
    /\ instructions = base_instructions

\* C20 as claimed: the handler raises nothing on an event that carries no utterance and
\* leaves the pending slots, the buffer, the history and the tasks as they are.
C20_MalformedEventIgnored ==
    [][ (ItemStep /\ last'.item \in Malformed) =>
          /\ ~HandlerRaises(last'.item)
          /\ AppendsNothing
          /\ current_user_message' = current_user_message
          /\ current_agent_message' = current_agent_message ]_vars

\* the messages of a conversation are its Turns in the order they were formed, each
\* as its user message followed by its assistant message
InTurnOrder(conversation) ==
    /\ Len(conversation) % 2 = 0
    /\ \A k \in 1..(Len(conversation) \div 2) :
          /\ conversation[2 * k - 1].role = "user"
          /\ conversation[2 * k].role = "assistant"
          /\ conversation[2 * k - 1].turn = conversation[2 * k].turn
          /\ k > 1 => conversation[2 * k - 2].turn < conversation[2 * k - 1].turn

\* C21: the payload of every submission holds its Turns in the order they were formed,
\* each Turn as its user message immediately followed by its assistant message; the
\* same holds of the buffer and of the history the payloads are copied from.
C21_PayloadsInTurnOrder ==
    /\ \A n \in 1..Len(tasks) : InTurnOrder(tasks[n].conversation)
    /\ InTurnOrder(conversation_buffer)
    /\ InTurnOrder(full_conversation)

\* the second submission carries four Turns; the first Turn answered user y and the
\* second answered user x, and they are in the payload in that order
C21_Witness ==
    /\ Len(tasks) = 2
    /\ Len(tasks[2].conversation) = 8
    /\ tasks[2].conversation[1] = Message("user", Str(y), 1)
    /\ tasks[2].conversation[2] = Message("assistant", Str(z), 1)
    /\ tasks[2].conversation[3] = Message("user", Str(x), 2)
    /\ tasks[2].conversation[8].turn = 4

\* the cycle has returned
Terminated(cycle) == cycle.phase \in {"prompt-updated", "exhausted"}

\* C22: every refresh cycle that was started reaches one of the two final phases; a
\* cycle that has run never is again as it was when it was started (its counts of polls
\* and retrievals never decrease and each step raises one of them or ends the cycle),
\* and a cycle in a final phase takes no further step.
C22_EveryCycleTerminates ==
    /\ \A c \in 1..MaxTurns :
          (Len(cycles) >= c) ~> (Len(cycles) >= c /\ Terminated(cycles[c]))
    /\ [][ \A c \in 1..Len(cycles) :
             /\ cycles'[c].polls >= cycles[c].polls
             /\ cycles'[c].retrievals >= cycles[c].retrievals
             /\ CycleStep(c) =>
                   /\ cycles'[c] # NewCycle(cycles[c].task_id)
                   /\ \/ cycles'[c].polls > cycles[c].polls
                      \/ cycles'[c].retrievals > cycles[c].retrievals
                      \/ cycles'[c].phase = "exhausted"
             /\ Terminated(cycles[c]) => (cycles'[c] = cycles[c] /\ ~CycleStep(c)) ]_vars

\* both cycles of the session have returned, one with the prompt written and one
\* without a summary
C22_Witness ==
    /\ Len(cycles) = 2
    /\ \E c, d \in 1..2 :
          /\ cycles[c].phase = "prompt-updated"
          /\ cycles[d].phase = "exhausted"
          /\ cycles[d].polls = 10
          /\ cycles[d].retrievals = 5

\* the cycles that have not returned
InFlight(cc) == { c \in 1..Len(cc) : Live(cc[c]) }

\* C23: the return of a submission's remote call starts a new cycle however many
\* cycles are in flight, and leaves those as they are: nothing waits for a running
\* cycle or limits the number of cycles in flight.
C23_CyclesNotSerialized ==
    [][ last'.op = "save_response" =>
          /\ Len(cycles') = Len(cycles) + 1
          /\ SubSeq(cycles', 1, Len(cycles)) = cycles
          /\ cycles'[Len(cycles')] = NewCycle(tasks'[last'.task].response.task_id)
          /\ InFlight(cycles') = InFlight(cycles) \cup {Len(cycles')} ]_vars

\* the cycle of the second submission was started while the cycle of the first was
\* polling, and both have polled since
C23_Witness ==
    /\ Len(cycles) = 2
    /\ InFlight(cycles) = {1, 2}
    /\ cycles[1].task_id = TaskId(1)
    /\ cycles[2].task_id = TaskId(2)
    /\ cycles[1].polls = 3
    /\ cycles[2].polls = 1

\* C24: between two handlers the buffer holds no message or the two messages of one
\* Turn, a user message followed by an assistant message: it is below the threshold of
\* 4 in every state.
C24_BufferHoldsAtMostOneTurn ==
    /\ Len(conversation_buffer) \in {0, 2}
    /\ Len(conversation_buffer) < BufferThreshold
    /\ \A i \in 1..Len(conversation_buffer) :
          conversation_buffer[i].role = (IF i % 2 = 1 THEN "user" ELSE "assistant")

\* the third Turn is in the buffer after the threshold submission emptied it
C24_Witness ==
    /\ ~closed
    /\ Len(tasks) = 1
    /\ turn_count = 3
    /\ conversation_buffer = << Message("user", Str(x), 3), Message("assistant", Str(z), 3) >>

\* C25: until the session closes the payload of the n-th threshold submission is the
\* history of the session when it was dispatched, the first 2n Turns, whatever became of
\* the earlier submissions: it is a prefix of the history, and the payload before it is
\* a strict prefix of it.
C25_PayloadsAreCumulative ==
    ~closed =>
       \A n \in 1..Len(tasks) :
          /\ Len(tasks[n].conversation) = 4 * n
          /\ TurnTags(tasks[n].conversation) = 1..(2 * n)
          /\ IsPrefix(tasks[n].conversation, full_conversation)
          /\ n > 1 =>
                /\ IsPrefix(tasks[n - 1].conversation, tasks[n].conversation)
                /\ Len(tasks[n - 1].conversation) < Len(tasks[n].conversation)

\* the first submission was accepted by the store and the second one, just dispatched,
\* carries its two Turns again before the two new ones
C25_Witness ==
    /\ ~closed
    /\ last.op = "item"
    /\ Len(tasks) = 2
    /\ tasks[1].pc = "submitted"
    /\ tasks[2].pc = "created"
    /\ SubSeq(tasks[2].conversation, 1, 4) = tasks[1].conversation
    /\ tasks[2].conversation = full_conversation
    /\ Len(full_conversation) = 8

\* C26: the close handler dispatches a submission exactly when the history holds at
\* least 4 messages, whether or not the buffer is empty: then the payload is the whole
\* history and the buffer and the history are empty afterwards; otherwise nothing is
\* dispatched and nothing is cleared. Nothing is dispatched after the close.
C26_CloseSubmitsIffHistoryHasTwoTurns ==
    [][ /\ last'.op = "close" =>
              IF Len(full_conversation) >= 4
              THEN /\ Len(tasks') = Len(tasks) + 1
                   /\ SubSeq(tasks', 1, Len(tasks)) = tasks
                   /\ tasks'[Len(tasks')].conversation = full_conversation
                   /\ tasks'[Len(tasks')].pc = "created"
                   /\ conversation_buffer' = <<>>
                   /\ full_conversation' = <<>>
              ELSE /\ tasks' = tasks
                   /\ conversation_buffer' = conversation_buffer
                   /\ full_conversation' = full_conversation
        /\ closed => Len(tasks') = Len(tasks) ]_vars

\* the session was closed with an empty buffer after its two Turns had been submitted:
\* the final submission carries the same two Turns again
C26_Witness ==
    /\ closed
    /\ last.op = "close"
    /\ turn_count = 2
    /\ Len(tasks) = 2
    /\ tasks[1].pc = "submitted"
    /\ tasks[2].conversation = tasks[1].conversation
    /\ conversation_buffer = <<>>
    /\ full_conversation = <<>>

\* the step of cycle c assigned the instructions
Assigned(c) == CycleStep(c) /\ cycles'[c].phase = "prompt-updated"

\* C27: the step in which a cycle assigns the instructions is the step in which it
\* retrieved the summaries: the value is built from the memories read in that step, and
\* the step runs no handler and no other task (the session's variables, the save tasks
\* and the other cycles are as before it). A cycle is never between a retrieval with
\* summaries and its assignment: such a retrieval ends the cycle in the same step.
C27_RetrievalAndAssignmentInOneStep ==
    [][ \A c \in 1..Len(cycles) :
          /\ Assigned(c) =>
                /\ Live(cycles[c])
                /\ RetrievedSummary
                /\ instructions' =
                      build_system_prompt_with_memories(base_instructions, last'.memories)
                /\ UNCHANGED <<session_vars, tasks>>
                /\ \A d \in 1..Len(cycles) : d # c => cycles'[d] = cycles[d]
          /\ (CycleStep(c) /\ RetrievedSummary) => Assigned(c) ]_vars

\* while the other cycle is polling, a cycle has just retrieved a summary at its second
\* poll and written the prompt built from it
C27_Witness ==
    /\ last.op = "refresh"
    /\ Len(cycles) = 2
    /\ cycles[last.cycle].phase = "prompt-updated"
    /\ cycles[last.cycle].polls = 2
    /\ \E d \in 1..2 : d # last.cycle /\ cycles[d].phase = "polling" /\ cycles[d].polls = 1
    /\ instructions = build_system_prompt_with_memories(base_instructions, last.memories)
    /\ Summaries(last.memories) # <<>>

\* C28: a value that a cycle assigns is the base prompt followed by the header and at
\* least one category block, never the bare base prompt; and a step whose retrieval
\* returns no summary leaves a prompt that has memories as it is.
C28_AssignedPromptHasMemories ==
    [][ /\ \A c \in 1..Len(cycles) :
              Assigned(c) =>
                 /\ instructions' # base_instructions
                 /\ SubSeq(instructions', 1, Len(base_instructions)) = base_instructions
                 /\ HeaderCount(instructions') = 1
                 /\ Len(instructions') >= Len(base_instructions) + 1 + 5
        /\ (Retrieved /\ Summaries(last'.memories) = <<>>) =>
              /\ instructions' = instructions
              /\ HeaderCount(instructions') = HeaderCount(instructions) ]_vars

\* one cycle has written the memories into the prompt; the other, polling, has just
\* retrieved an empty category list after a completed status, and the memories remain
C28_Witness ==
    /\ last.op = "refresh"
    /\ last.status = "completed"
    /\ last.memories = Memories(<<>>)
    /\ cycles[last.cycle].phase = "polling"
    /\ \E d \in 1..Len(cycles) :
          /\ cycles[d].phase = "prompt-updated"
          /\ cycles[d].task_id = TaskId(1)
    /\ cycles[last.cycle].task_id = TaskId(2)
    /\ HeaderCount(instructions) = 1

====
